---- MODULE Spec2Model ----
(***************************************************************************)
(* A model of tangermeme/deep_lift_shap.py: the hypothetical-attribution   *)
(* projector, the rescale rules, the attribution engine                    *)
(* (DeepLiftShap.attribute) and the batched driver (deep_lift_shap).       *)
(*                                                                         *)
(* Numbers are exact rationals <<numerator, denominator>>; a tensor of     *)
(* shape (alphabet, length) is a function t[a][p] with a in 0..3 and p in  *)
(* 1..length; a batch is a sequence of such tensors.                       *)
(***************************************************************************)
EXTENDS Integers, Sequences, FiniteSets, TLC

\* ------------------------------------------------------------------------
\* Exact arithmetic
\* ------------------------------------------------------------------------

Abs(n) == IF n < 0 THEN 0 - n ELSE n

RECURSIVE GCD(_, _)
GCD(a, b) == IF b = 0 THEN a ELSE GCD(b, a % b)

\* the rational n/d in lowest terms with a positive denominator
Norm(n, d) ==
    IF n = 0 THEN <<0, 1>>
    ELSE LET g == GCD(Abs(n), Abs(d))
             s == IF d < 0 THEN 0 - 1 ELSE 1
         IN  <<(s * n) \div g, (s * d) \div g>>

Q(n) == <<n, 1>>
Zero == <<0, 1>>
One == <<1, 1>>

RAdd(x, y) ==
    IF x[2] = y[2] THEN (IF x[2] = 1 THEN <<x[1] + y[1], 1>>
                         ELSE Norm(x[1] + y[1], x[2]))
    ELSE Norm(x[1] * y[2] + y[1] * x[2], x[2] * y[2])

RNeg(x) == <<0 - x[1], x[2]>>

RSub(x, y) == RAdd(x, RNeg(y))

RMul(x, y) ==
    IF x[2] = 1 /\ y[2] = 1 THEN <<x[1] * y[1], 1>>
    ELSE Norm(x[1] * y[1], x[2] * y[2])

\* x / y for y # 0
RDiv(x, y) == Norm(x[1] * y[2], x[2] * y[1])

RAbs(x) == <<Abs(x[1]), x[2]>>

RLess(x, y) == x[1] * y[2] < y[1] * x[2]

RMax(x, y) == IF RLess(x, y) THEN y ELSE x

\* the sum of f[k] for k in lo..hi
RECURSIVE RSum(_, _, _)
RSum(f, lo, hi) == IF hi < lo THEN Zero ELSE RAdd(f[hi], RSum(f, lo, hi - 1))

\* ------------------------------------------------------------------------
\* The outcome of a call: the value returned, or the exception raised
\* ------------------------------------------------------------------------

\* the value v, its elements computed: the identity
Eager(v) == IF v = v THEN v ELSE v

Return(v) == [error |-> "none", value |-> v]

Raise(e) == [error |-> e, value |-> <<>>]

\* ------------------------------------------------------------------------
\* Tensors
\* ------------------------------------------------------------------------

\* the symbols of the one-hot alphabet (A, C, G, T)
Alphabet == 0..3

AlphaLo == CHOOSE a \in Alphabet : \A b \in Alphabet : a <= b
AlphaHi == CHOOSE a \in Alphabet : \A b \in Alphabet : b <= a

\* the length of a tensor of shape (alphabet, length)
TLen(t) == Len(t[AlphaLo])

\* the shape of a batch: (pairs, alphabet, length)
Shape(batch) ==
    <<Len(batch),
      IF Len(batch) = 0 THEN {} ELSE DOMAIN batch[1],
      IF Len(batch) = 0 THEN 0 ELSE TLen(batch[1])>>

\* the tensor of shape (alphabet, len) holding v everywhere
Full(len, v) == [a \in Alphabet |-> [p \in 1..len |-> v]]

\* the one-hot encoding of a sequence of symbols
OneHot(seq) ==
    [a \in Alphabet |-> [p \in 1..Len(seq) |-> IF seq[p] = a THEN One ELSE Zero]]

TSub(s, t) == [a \in DOMAIN s |-> [p \in DOMAIN s[a] |-> RSub(s[a][p], t[a][p])]]

TAdd(s, t) == [a \in DOMAIN s |-> [p \in DOMAIN s[a] |-> RAdd(s[a][p], t[a][p])]]

TMul(s, t) == [a \in DOMAIN s |-> [p \in DOMAIN s[a] |-> RMul(s[a][p], t[a][p])]]

TScale(s, c) == [a \in DOMAIN s |-> [p \in DOMAIN s[a] |-> RMul(s[a][p], c)]]

\* ------------------------------------------------------------------------
\* hypothetical_attributions
\* ------------------------------------------------------------------------

\* the input that has symbol i at every position of every pair
hypothetical_input(i, X) ==
    [n \in DOMAIN X |->
        [a \in DOMAIN X[n] |-> [p \in DOMAIN X[n][a] |-> IF a = i THEN One ELSE Zero]]]

\* a mutant: the references are not subtracted
hypothetical_diffs_noref(i, X, references) == hypothetical_input(i, X)

\* a mutant: the observed input stands in for the hypothetical one
hypothetical_diffs_observed(i, X, references) ==
    [n \in DOMAIN X |-> TSub(X[n], references[n])]

hypothetical_diffs(i, X, references) ==
    [n \in DOMAIN X |-> TSub(hypothetical_input(i, X)[n], references[n])]

hypothetical_contribs(i, multipliers, X, references) ==
    [n \in DOMAIN X |-> TMul(hypothetical_diffs(i, X, references)[n], multipliers[n])]

\* projected_contribs[:, i] = sum over the alphabet axis, for every symbol i
projected_contribs(multipliers, X, references) ==
    [n \in DOMAIN X |->
        [i \in DOMAIN X[n] |->
            [p \in DOMAIN X[n][i] |->
                RSum([a \in Alphabet |->
                         hypothetical_contribs(i, multipliers, X, references)[n][a][p]],
                     AlphaLo, AlphaHi)]]]

\* the projector: a ValueError when the shapes differ, else the projection
hypothetical_attributions(multipliers, X, references) ==
    IF Shape(X) # Shape(multipliers) \/ Shape(references) # Shape(multipliers)
    THEN Raise("ValueError")
    ELSE Return(projected_contribs(multipliers, X, references))

\* what an argument of the projector is: a one-element tuple holding a
\* tensor; a tensor outside any tuple; a tuple of two tensors; or a
\* one-element tuple holding an array that is no tensor
ArgForms == {"tuple", "tensor", "pair", "array"}

\* a mutant: what the one-element tuple holds is not looked at
IsTensorTuple_anytuple(form) == form \in {"tuple", "array"}

\* lines 56-61: the argument is a one-element tuple and holds a tensor
IsTensorTuple(form) == form = "tuple"

\* the projector called on arguments of the given forms: the ValueError of
\* lines 55-64 for an argument that is no one-element tuple of a tensor
hypothetical_attributions_call(forms, multipliers, X, references) ==
    IF \E v \in DOMAIN forms : ~IsTensorTuple(forms[v])
    THEN Raise("ValueError")
    ELSE hypothetical_attributions(multipliers, X, references)

\* ------------------------------------------------------------------------
\* The rescale rules.  A module is a record holding the layer's kind, the
\* input and output its forward hooks cached (one row per element of the
\* combined batch, the examples first and the references second) and, for
\* a pooling layer, kernel_size and stride.  grad_input and grad_output
\* stand for grad_input[0] and grad_output[0]: one row per element.
\* ------------------------------------------------------------------------

\* |x| < eps with eps = 1e-10: a rational whose denominator is below 10^10,
\* as every one of this model is, has |x| < 1e-10 exactly when it is 0
BelowEps(x) == x[1] = 0

\* torch.sub(*t.chunk(2)) followed by torch.cat([d, d]): row r of the
\* result is the difference of the example and reference rows of r's pair
ChunkDiffCat(t) ==
    LET B == Len(t) \div 2
    IN  [r \in 1..Len(t) |->
            LET j == ((r - 1) % B) + 1
            IN  [k \in DOMAIN t[r] |-> RSub(t[j][k], t[j + B][k])]]

\* the sum of all the elements of a batch of rows
RECURSIVE RowsSum(_, _)
RowsSum(t, r) ==
    IF r = 0 THEN Zero ELSE RAdd(RSum(t[r], 1, Len(t[r])), RowsSum(t, r - 1))

\* the number of elements of a batch of rows
Numel(t) == IF Len(t) = 0 THEN 0 ELSE Len(t) * Len(t[1])

_nonlinear(module, grad_input, grad_output) ==
    LET delta_in == ChunkDiffCat(module.input)
        delta_out == ChunkDiffCat(module.output)
    IN  [r \in 1..Len(grad_input) |->
            [k \in DOMAIN grad_input[r] |->
                IF BelowEps(delta_in[r][k]) THEN grad_input[r][k]
                ELSE RMul(grad_output[r][k], RDiv(delta_out[r][k], delta_in[r][k]))]]

_softmax(module, grad_input, grad_output) ==
    LET grad_input_unnorm == Eager(_nonlinear(module, grad_input, grad_output))
        n == Numel(grad_input)
        shift == RDiv(RowsSum(grad_input_unnorm, Len(grad_input_unnorm)), Q(n))
    IN  [r \in 1..Len(grad_input) |->
            [k \in DOMAIN grad_input[r] |-> RSub(grad_input_unnorm[r][k], shift)]]

\* the number of windows of a pooling layer over a row of length len
\* (padding 0, dilation 1, ceil_mode False)
NumWindows(len, kernel_size, stride) ==
    IF len < kernel_size THEN 0 ELSE ((len - kernel_size) \div stride) + 1

\* the positions of window w
Window(w, kernel_size, stride) ==
    (((w - 1) * stride) + 1)..(((w - 1) * stride) + kernel_size)

\* the position of the maximum of window w of a row: the first one on a tie
ArgMax(row, w, kernel_size, stride) ==
    CHOOSE p \in Window(w, kernel_size, stride) :
        /\ \A q \in Window(w, kernel_size, stride) : ~RLess(row[p], row[q])
        /\ \A q \in Window(w, kernel_size, stride) :
              (q < p) => RLess(row[q], row[p])

\* a mutant: the index of a window is its first position
pool_indices_first(input, kernel_size, stride) ==
    [r \in 1..Len(input) |->
        [w \in 1..NumWindows(Len(input[r]), kernel_size, stride) |->
            ((w - 1) * stride) + 1]]

\* pool_func(input, ..., return_indices=True): the indices of the maxima
pool_indices(input, kernel_size, stride) ==
    [r \in 1..Len(input) |->
        [w \in 1..NumWindows(Len(input[r]), kernel_size, stride) |->
            ArgMax(input[r], w, kernel_size, stride)]]

\* the pooled values
pool_func(input, kernel_size, stride) ==
    [r \in 1..Len(input) |->
        [w \in 1..NumWindows(Len(input[r]), kernel_size, stride) |->
            input[r][ArgMax(input[r], w, kernel_size, stride)]]]

\* unpool_func(values, indices, ..., output size): zeros, with the value of
\* each window written at the window's index
unpool_func(values, indices, len) ==
    [r \in 1..Len(values) |->
        [p \in 1..len |->
            IF \E w \in DOMAIN indices[r] : indices[r][w] = p
            THEN values[r][CHOOSE w \in DOMAIN indices[r] :
                               /\ indices[r][w] = p
                               /\ \A v \in DOMAIN indices[r] :
                                     indices[r][v] = p => v <= w]
            ELSE Zero]]

\* delta_out of _maxpool: max(output, output_ref) - output_ref for the
\* example rows, output - max(output, output_ref) for the reference rows
maxpool_delta_out(output) ==
    LET B == Len(output) \div 2
    IN  [r \in 1..Len(output) |->
            LET j == ((r - 1) % B) + 1
            IN  [w \in DOMAIN output[r] |->
                    LET xmax == RMax(output[j][w], output[j + B][w])
                    IN  IF r <= B THEN RSub(xmax, output[j + B][w])
                        ELSE RSub(output[j][w], xmax)]]

\* unpool_delta of _maxpool after the halves are summed and concatenated
maxpool_unpool_delta(module, grad_output) ==
    LET B == Len(module.input) \div 2
        delta_out == maxpool_delta_out(module.output)
        indices == pool_indices(module.input, module.kernel_size, module.stride)
        weighted == [r \in 1..Len(grad_output) |->
                        [w \in DOMAIN grad_output[r] |->
                            RMul(grad_output[r][w], delta_out[r][w])]]
        unpool_ == unpool_func(weighted, indices, Len(module.input[1]))
    IN  [r \in 1..Len(module.input) |->
            LET j == ((r - 1) % B) + 1
            IN  [p \in DOMAIN unpool_[j] |-> RAdd(unpool_[j][p], unpool_[j + B][p])]]

_maxpool(module, grad_input, grad_output) ==
    IF module.kind \notin {"MaxPool1d", "MaxPool2d"} THEN Raise("ValueError")
    ELSE
    LET delta_in == ChunkDiffCat(module.input)
        unpool_delta == maxpool_unpool_delta(module, grad_output)
    IN  Return([r \in 1..Len(grad_input) |->
                   [p \in DOMAIN grad_input[r] |->
                       IF BelowEps(delta_in[r][p]) THEN grad_input[r][p]
                       ELSE RDiv(unpool_delta[r][p], delta_in[r][p])]])

\* the gradient ordinary differentiation hands a max-pooling layer's
\* backward hook as grad_input: the upstream gradient at each window's index
maxpool_backward(module, grad_output) ==
    unpool_func(grad_output,
                pool_indices(module.input, module.kernel_size, module.stride),
                Len(module.input[1]))

\* ------------------------------------------------------------------------
\* The model being explained: Flatten -> Linear -> activation, wrapped in a
\* Sequential; its output has one column per hidden unit.  The kinds of
\* activation: none ("Linear"), torch.nn.ReLU, a class derived from it
\* ("ReLUSubclass"), torch.nn.Softmax and torch.nn.Hardtanh.
\* ------------------------------------------------------------------------

Units == 1..2

\* the weights of the Linear layer, the same at every position
Weights(kind) ==
    IF kind = "Linear"
    THEN <<[a \in Alphabet |-> CASE a = 0 -> 1 [] a = 1 -> 0 - 1 [] OTHER -> 0],
           [a \in Alphabet |-> CASE a = 2 -> 1 [] a = 3 -> 0 - 1 [] OTHER -> 0]>>
    ELSE <<[a \in Alphabet |-> CASE a = 0 -> 1 [] a = 1 -> 0 - 1 [] a = 2 -> 0 [] OTHER -> 2],
           [a \in Alphabet |-> CASE a = 0 -> 0 [] a = 1 -> 0 - 1 [] a = 2 -> 1 [] OTHER -> 2]>>

\* the modules model.apply visits: the children first, the container last
Modules(kind) ==
    IF kind = "Linear" THEN <<"Linear", "Sequential">>
    ELSE <<"Linear", kind, "Sequential">>

\* the position of the activation among the modules, 0 when there is none
ActIndex(kind) == IF kind = "Linear" THEN 0 ELSE 2

\* the class a kind is derived from
Parent(kind) == IF kind = "ReLUSubclass" THEN "ReLU" ELSE "Module"

RECURSIVE Pow2(_)
Pow2(n) == IF n <= 0 THEN 1 ELSE 2 * Pow2(n - 1)

\* the sum over alphabet and length of the elements of a tensor
TSum(t) ==
    RSum([a \in Alphabet |-> RSum(t[a], 1, TLen(t))], AlphaLo, AlphaHi)

\* the Linear layer's output for one element
LinearForward(kind, x) ==
    [k \in Units |->
        TSum([a \in Alphabet |-> [p \in 1..TLen(x) |-> RMul(Q(Weights(kind)[k][a]), x[a][p])]])]

\* a mutant: the weights are left out of the gradient
LinearBackward_unweighted(kind, g, len) ==
    [a \in Alphabet |-> [p \in 1..len |-> RSum(g, 1, 2)]]

\* the gradient with respect to the Linear layer's input
LinearBackward(kind, g, len) ==
    [a \in Alphabet |->
        [p \in 1..len |->
            RSum([k \in Units |-> RMul(g[k], Q(Weights(kind)[k][a]))], 1, 2)]]

\* the activation's output for one element.  The Softmax is taken to base
\* 2 over integer inputs, which keeps its values rational.
Activation(kind, h) ==
    CASE kind \in {"ReLU", "ReLUSubclass"} ->
            [k \in Units |-> RMax(h[k], Zero)]
      [] kind = "Hardtanh" ->
            [k \in Units |-> IF RLess(h[k], Q(0 - 1)) THEN Q(0 - 1)
                             ELSE IF RLess(One, h[k]) THEN One ELSE h[k]]
      [] kind = "Softmax" ->
            LET m == IF h[1][1] < h[2][1] THEN h[1][1] ELSE h[2][1]
                e == [k \in Units |-> Pow2(h[k][1] - m)]
            IN  [k \in Units |-> Norm(e[k], e[1] + e[2])]
      [] OTHER -> h

\* the gradient ordinary differentiation computes through the activation
\* (the grad_input a backward hook receives).  For the Softmax it is the
\* derivative in the scale of its base-2 input; Init admits no Softmax
\* input on which a rule reads it.
OrdinaryGrad(kind, in, out, gout) ==
    CASE kind \in {"ReLU", "ReLUSubclass"} ->
            [k \in Units |-> IF RLess(Zero, in[k]) THEN gout[k] ELSE Zero]
      [] kind = "Hardtanh" ->
            [k \in Units |-> IF RLess(Q(0 - 1), in[k]) /\ RLess(in[k], One)
                             THEN gout[k] ELSE Zero]
      [] kind = "Softmax" ->
            LET dot == RSum([k \in Units |-> RMul(gout[k], out[k])], 1, 2)
            IN  [k \in Units |-> RMul(out[k], RSub(gout[k], dot))]
      [] OTHER -> gout

\* ------------------------------------------------------------------------
\* DeepLiftShap
\* ------------------------------------------------------------------------

\* DeepLiftShap.__init__: the rule of every registered kind
_NON_LINEAR_OPS(additional_nonlinear_ops) ==
    [t \in {"ReLU", "ELU", "LeakyReLU", "Sigmoid", "Tanh", "Softplus",
            "MaxPool1d", "MaxPool2d", "Softmax"}
           \cup DOMAIN additional_nonlinear_ops |->
        IF t \in DOMAIN additional_nonlinear_ops THEN additional_nonlinear_ops[t]
        ELSE CASE t \in {"MaxPool1d", "MaxPool2d"} -> "_maxpool"
               [] t = "Softmax" -> "_softmax"
               [] OTHER -> "_nonlinear"]

\* isinstance(module, tuple(keys))
IsInstance(kind, keys) == kind \in keys \/ Parent(kind) \in keys

\* the rule registered under a name
ApplyRule(rule, module, grad_input, grad_output) ==
    CASE rule = "_nonlinear" -> Return(_nonlinear(module, grad_input, grad_output))
      [] rule = "_softmax" -> Return(_softmax(module, grad_input, grad_output))
      [] OTHER -> _maxpool(module, grad_input, grad_output)

\* _b_hook: the rule looked up by the module's own type; a KeyError when
\* the type is not a key
_b_hook(ops, module, grad_input, grad_output) ==
    IF module.kind \notin DOMAIN ops THEN Raise("KeyError")
    ELSE ApplyRule(ops[module.kind], module, grad_input, grad_output)

\* torch.cat([X, references])
Cat(X, references) == X \o references

\* the forward pass over the combined batch: the activation's input and
\* output rows and the selected output column y
ForwardPass(kind, X_, target) ==
    LET in == [r \in 1..Len(X_) |-> LinearForward(kind, X_[r])]
        out == [r \in 1..Len(X_) |-> Activation(kind, in[r])]
    IN  [input |-> in, output |-> out,
         y |-> [r \in 1..Len(X_) |-> out[r][target + 1]]]

\* torch.autograd.grad(y.sum(), X)[0]: the gradient of the summed target
\* column through the graph fw of the forward pass, rewritten by the
\* activation's backward hook when it has one (hooked), which reads the
\* module's cached input and output
BackwardPass(kind, ops, hooked, fw, module, B, len, target) ==
    LET gout == [r \in 1..(2 * B) |-> [k \in Units |-> IF k = target + 1 THEN One ELSE Zero]]
        gin == [r \in 1..(2 * B) |->
                   OrdinaryGrad(kind, fw.input[r], fw.output[r], gout[r])]
        g == Eager(IF hooked THEN _b_hook(ops, module, gin, gout) ELSE Return(gin))
    IN  IF g.error # "none" THEN g
        ELSE Return([j \in 1..B |-> LinearBackward(kind, g.value[j], len)])

\* convergence_deltas = |output_diff - input_diff|, one per pair
ConvergenceDeltas(X, references, y, gradients) ==
    LET B == Len(X)
    IN  [j \in 1..B |->
            RAbs(RSub(RSub(y[j], y[j + B]),
                      TSum(TMul(TSub(X[j], references[j]), gradients[j]))))]

\* ------------------------------------------------------------------------
\* The reference function (the collaborator passed as references): for each
\* sequence n references, a function of the sequence and the seed alone.
\* The k-th reference under seed s rotates every symbol by 1 + (s + k) % 3.
\* ------------------------------------------------------------------------

Subst(x, shift) ==
    [a \in Alphabet |-> [p \in 1..TLen(x) |-> x[(a + 4 - (shift % 4)) % 4][p]]]

ReferenceFn(X, n, seed) ==
    [j \in 1..Len(X) |-> [k \in 1..n |-> Subst(X[j], 1 + ((seed + k - 1) % 3))]]

\* ------------------------------------------------------------------------
\* State
\* ------------------------------------------------------------------------

VARIABLES
    args,               \* the arguments of the deep_lift_shap call
    pc,                 \* the position of the call
    i, Xi, rj,          \* the loop index and the pairs of the open batch
    attr_,              \* the pending queue; each entry carries its pair
    attributions,       \* the output list; each entry carries what it averaged
    z,                  \* the example the next finalization belongs to
    references_,        \* the references collected for return_references
    _X, _references,    \* the batch handed to attribute
    multipliers,        \* the engine's result for the batch
    hooks,              \* per module: the hook ids in its three hook dicts
    cache,              \* per module: the input and output its hooks stored
    handles,            \* DeepLiftShap.handles of the current engine object
    nextId,             \* the id the next hook handle gets
    y, gradients,       \* locals of attribute
    exc,                \* the exception in flight, or "none"
    warnings_,          \* the warnings issued: the loop index of each
    genCalls,           \* the calls made to the reference function
    entropy,            \* what the reference function next seeds itself with
    hyp,                \* a call of hypothetical_attributions
    mp                  \* a max-pooling layer under the _maxpool rule

driverVars == <<args, pc, i, Xi, rj, attr_, attributions, z, references_, _X,
                _references, multipliers, hooks, cache, handles, nextId, y,
                gradients, exc, warnings_, genCalls, entropy>>

vars == <<driverVars, hyp, mp>>

\* ------------------------------------------------------------------------
\* deep_lift_shap: the bounds and the calls explored
\* ------------------------------------------------------------------------

MaxN == 2
MaxShuffles == 2
MaxBatch == 4

\* target=0, the default
target == 0

\* the sequences the examples are drawn from
XSeqs == << <<0, 1>>, <<3, 3>>, <<1, 2>> >>

\* the models: the activation, additional_nonlinear_ops, and whether the
\* user has a backward hook of their own on the activation
Configs ==
    { [kind |-> "Linear", ops |-> <<>>, userHook |-> FALSE],
      [kind |-> "ReLU", ops |-> <<>>, userHook |-> FALSE],
      [kind |-> "ReLU", ops |-> <<>>, userHook |-> TRUE],
      [kind |-> "ReLUSubclass", ops |-> <<>>, userHook |-> FALSE],
      [kind |-> "Softmax", ops |-> <<>>, userHook |-> FALSE],
      [kind |-> "Hardtanh", ops |-> <<>>, userHook |-> FALSE],
      [kind |-> "Hardtanh", ops |-> ("Hardtanh" :> "_nonlinear"), userHook |-> FALSE] }

\* how the references are given: a tensor whose first reference is the
\* example itself or a rotation of it, a tensor of references one position
\* longer than the examples, a function with random_state 0 or 1, or a
\* function with random_state None
RefModes == {"tensor0", "tensor1", "tensorLong", "seeded0", "seeded1", "unseeded"}

ExamplesOf(N, x0) ==
    [e \in 1..N |-> OneHot(XSeqs[((x0 + e - 1) % Len(XSeqs)) + 1])]

ReferenceTensor(X, R, t0) ==
    [e \in 1..Len(X) |-> [r \in 1..R |-> Subst(X[e], t0 + r - 1)]]

\* a tensor of references that do not have the shape of the examples
LongReferenceTensor(X, R) ==
    [e \in 1..Len(X) |-> [r \in 1..R |-> Full(TLen(X[e]) + 1, Zero)]]

\* the references a call may pair with example e
PossibleReferences(a, e) ==
    IF a.is_tensor THEN {a.references[e][r] : r \in 1..Len(a.references[e])}
    ELSE {Subst(a.X[e], sh) : sh \in 1..3}

\* no Softmax input has the same value for an example and its reference
SoftmaxAdmits(a) ==
    a.kind = "Softmax" =>
        \A e \in 1..Len(a.X) : \A ref \in PossibleReferences(a, e) : \A k \in Units :
            LinearForward(a.kind, a.X[e])[k] # LinearForward(a.kind, ref)[k]

NoHooks == [forward |-> {}, forward_pre |-> {}, backward |-> {}]

NoCache == [has_input |-> FALSE, input |-> <<>>, has_output |-> FALSE, output |-> <<>>]

\* the forms of the arguments of a call that hands over tuples of tensors
TupleForms == [multipliers |-> "tuple", X |-> "tuple", references |-> "tuple"]

ProjIdle == [forms |-> TupleForms, multipliers |-> <<>>, X |-> <<>>,
             references |-> <<>>, out |-> Raise("none"), called |-> FALSE]

PoolIdle == [module |-> [kind |-> "none"], grad_input |-> <<>>, grad_output |-> <<>>,
             new_grad_inp |-> Raise("none"), stage |-> "idle"]

CallArgs(cfg, N, R, bs, hypo, raw, x0, mode) ==
    LET X == ExamplesOf(N, x0)
        tensor == mode \in {"tensor0", "tensor1", "tensorLong"}
    IN  [kind |-> cfg.kind,
         additional_nonlinear_ops |-> cfg.ops,
         userHook |-> cfg.userHook,
         X |-> X,
         is_tensor |-> tensor,
         references |-> IF mode = "tensorLong" THEN LongReferenceTensor(X, R)
                        ELSE IF tensor
                        THEN ReferenceTensor(X, R, IF mode = "tensor0" THEN 0 ELSE 1)
                        ELSE <<>>,
         n_shuffles |-> IF tensor THEN MaxShuffles ELSE R,
         batch_size |-> bs,
         hypothetical |-> hypo,
         raw_outputs |-> raw,
         return_references |-> TRUE,
         random_state_is_none |-> (mode = "unseeded"),
         random_state |-> IF mode = "seeded1" THEN 1 ELSE 0,
         warning_threshold |-> <<1, 10000>>]

Init ==
    /\ \E cfg \in Configs, N \in 1..MaxN, R \in 1..MaxShuffles, bs \in 1..MaxBatch,
          hypo \in BOOLEAN, raw \in BOOLEAN, x0 \in 0..1, mode \in RefModes :
          /\ args = CallArgs(cfg, N, R, bs, hypo, raw, x0, mode)
          /\ SoftmaxAdmits(args)
    /\ pc = "loop"
    /\ i = 0
    /\ Xi = <<>>
    /\ rj = <<>>
    /\ attr_ = <<>>
    /\ attributions = <<>>
    /\ z = 0
    /\ references_ = <<>>
    /\ _X = <<>>
    /\ _references = <<>>
    /\ multipliers = <<>>
    /\ hooks = [m \in 1..Len(Modules(args.kind)) |->
                   IF args.userHook /\ m = ActIndex(args.kind)
                   THEN [NoHooks EXCEPT !.backward = {0}]
                   ELSE NoHooks]
    /\ cache = [m \in 1..Len(Modules(args.kind)) |-> NoCache]
    /\ handles = <<>>
    /\ nextId = 1
    /\ y = <<>>
    /\ gradients = <<>>
    /\ exc = "none"
    /\ warnings_ = <<>>
    /\ genCalls = <<>>
    /\ entropy \in (IF args.random_state_is_none THEN 0..1 ELSE {0})
    /\ hyp = ProjIdle
    /\ mp = PoolIdle

\* n_shuffles after line 499: the tensor's second dimension overrides it
n_shuffles == IF args.is_tensor THEN Len(args.references[1]) ELSE args.n_shuffles

\* n, the number of example-reference pairs
n == Len(args.X) * n_shuffles

\* ------------------------------------------------------------------------
\* deep_lift_shap: the loop
\* ------------------------------------------------------------------------

\* lines 505-509: one pass of the for loop up to the test for a full batch
Collect ==
    /\ pc = "loop"
    /\ i < n
    /\ Xi' = Append(Xi, i \div n_shuffles)
    /\ rj' = Append(rj, i % n_shuffles)
    /\ IF Len(Xi') = args.batch_size \/ i = n - 1
       THEN pc' = "references" /\ i' = i
       ELSE pc' = "loop" /\ i' = i + 1
    /\ UNCHANGED <<args, attr_, attributions, z, references_, _X, _references,
                   multipliers, hooks, cache, handles, nextId, y, gradients, exc,
                   warnings_, genCalls, entropy, hyp, mp>>

\* the pairs (example, reference index) of the open batch
BatchPairs == [j \in 1..Len(Xi) |-> <<Xi[j], rj[j]>>]

\* a mutant: the seed is not offset by the reference index
SeedFor_nooffset(random_state, r) == random_state

\* the seed of the reference of index r
SeedFor(random_state, r) == random_state + r

\* lines 510-528: X[Xi] and the references of the batch
ResolveReferences ==
    /\ pc = "references"
    /\ _X' = [j \in 1..Len(Xi) |-> args.X[Xi[j] + 1]]
    /\ IF args.is_tensor
       THEN /\ _references' =
                 [j \in 1..Len(Xi) |-> args.references[Xi[j] + 1][rj[j] + 1]]
            /\ UNCHANGED <<genCalls, entropy>>
       ELSE IF args.random_state_is_none
       THEN \* one call for the batch; the function seeds itself afresh
            \* and draws once per sequence
            /\ _references' =
                 [j \in 1..Len(Xi) |->
                     ReferenceFn(<<_X'[j]>>, 1, entropy + j - 1)[1][1]]
            /\ genCalls' = Append(genCalls,
                 [n_seqs |-> Len(Xi), n |-> 1, seeded |-> FALSE, seed |-> entropy,
                  pairs |-> BatchPairs])
            /\ entropy' = entropy + 1
       ELSE \* one call per pair, seeded with random_state + rj[j]
            /\ _references' =
                 [j \in 1..Len(Xi) |->
                     ReferenceFn(<<_X'[j]>>, 1, SeedFor(args.random_state, rj[j]))[1][1]]
            /\ genCalls' = genCalls \o
                 [j \in 1..Len(Xi) |->
                     [n_seqs |-> 1, n |-> 1, seeded |-> TRUE,
                      seed |-> SeedFor(args.random_state, rj[j]),
                      pairs |-> <<BatchPairs[j]>>]]
            /\ UNCHANGED entropy
    /\ pc' = "attribute"
    /\ UNCHANGED <<args, i, Xi, rj, attr_, attributions, z, references_, multipliers,
                   hooks, cache, handles, nextId, y, gradients, exc, warnings_, hyp, mp>>

\* ------------------------------------------------------------------------
\* DeepLiftShap.attribute
\* ------------------------------------------------------------------------

\* the keys of the engine's rule table
Ops == _NON_LINEAR_OPS(args.additional_nonlinear_ops)

\* _register_hooks applied to module m of the given kind; st holds the
\* hook dicts, the handles and the next handle id
_register_hooks(st, m, kind, keys) ==
    IF st.hooks[m].backward # {} THEN st
    ELSE IF ~IsInstance(kind, keys) THEN st
    ELSE [hooks |-> [st.hooks EXCEPT
                        ![m] = [forward |-> @.forward \cup {st.nextId},
                                forward_pre |-> @.forward_pre \cup {st.nextId + 1},
                                backward |-> @.backward \cup {st.nextId + 2}]],
          handles |-> st.handles \o
                        << [module |-> m, dict |-> "forward", id |-> st.nextId],
                           [module |-> m, dict |-> "forward_pre", id |-> st.nextId + 1],
                           [module |-> m, dict |-> "backward", id |-> st.nextId + 2] >>,
          nextId |-> st.nextId + 3]

\* model.apply(self._register_hooks) over the modules from m to last
RECURSIVE ApplyRegister(_, _, _, _, _)
ApplyRegister(st, kinds, keys, m, last) ==
    IF m > last THEN st
    ELSE ApplyRegister(_register_hooks(st, m, kinds[m], keys), kinds, keys, m + 1, last)

\* lines 531-535 and 210-214: a new engine object, the assertion on the
\* shapes, and the hooks installed on the whole model
RegisterHooks ==
    /\ pc = "attribute"
    /\ IF Shape(_X) # Shape(_references)
       THEN /\ exc' = "AssertionError"
            /\ pc' = "raised"
            /\ UNCHANGED <<hooks, handles, nextId>>
       ELSE LET st == ApplyRegister([hooks |-> hooks, handles |-> <<>>, nextId |-> nextId],
                                    Modules(args.kind), DOMAIN Ops, 1,
                                    Len(Modules(args.kind)))
            IN  /\ hooks' = st.hooks
                /\ handles' = st.handles
                /\ nextId' = st.nextId
                /\ pc' = "forward"
                /\ UNCHANGED exc
    /\ UNCHANGED <<args, i, Xi, rj, attr_, attributions, z, references_, _X,
                   _references, multipliers, cache, y, gradients, warnings_,
                   genCalls, entropy, hyp, mp>>

\* line 214 raising part-way: the first k modules were visited
RegisterHooksRaises ==
    /\ pc = "attribute"
    /\ Shape(_X) = Shape(_references)
    /\ \E k \in 0..(Len(Modules(args.kind)) - 1) :
          LET st == ApplyRegister([hooks |-> hooks, handles |-> <<>>, nextId |-> nextId],
                                  Modules(args.kind), DOMAIN Ops, 1, k)
          IN  /\ hooks' = st.hooks
              /\ handles' = st.handles
              /\ nextId' = st.nextId
    /\ exc' = "RuntimeError"
    /\ pc' = "finally"
    /\ UNCHANGED <<args, i, Xi, rj, attr_, attributions, z, references_, _X,
                   _references, multipliers, cache, y, gradients, warnings_,
                   genCalls, entropy, hyp, mp>>

\* the ids of the hooks this engine object holds handles of, on module m
EngineHooks(m, dict) ==
    {handles[h].id : h \in {g \in 1..Len(handles) :
                               handles[g].module = m /\ handles[g].dict = dict}}

\* _fp_hook and _f_hook: the cache after the activation ran on the batch,
\* its input stored if it carries the forward-pre hook and its output, if
\* the activation returned, if it carries the forward hook
Cached(fw, returned) ==
    [m \in DOMAIN cache |->
        IF m # ActIndex(args.kind) THEN cache[m]
        ELSE LET pre == EngineHooks(m, "forward_pre") \cap hooks[m].forward_pre # {}
                 post == returned /\ EngineHooks(m, "forward") \cap hooks[m].forward # {}
             IN  [has_input |-> cache[m].has_input \/ pre,
                  input |-> IF pre THEN fw.input ELSE cache[m].input,
                  has_output |-> cache[m].has_output \/ post,
                  output |-> IF post THEN fw.output ELSE cache[m].output]]

\* lines 215-223: the forward pass
Forward ==
    /\ pc = "forward"
    /\ LET fw == ForwardPass(args.kind, Cat(_X, _references), target)
       IN  /\ y' = fw.y
           /\ cache' = Cached(fw, TRUE)
    /\ pc' = "backward"
    /\ UNCHANGED <<args, i, Xi, rj, attr_, attributions, z, references_, _X,
                   _references, multipliers, hooks, handles, nextId, gradients, exc,
                   warnings_, genCalls, entropy, hyp, mp>>

\* lines 215-223 raising: in the Linear layer, before the activation is
\* called, or in the activation, after its forward-pre hook ran
ForwardRaises ==
    /\ pc = "forward"
    /\ \E reached \in BOOLEAN :
          cache' = IF reached
                   THEN Cached(ForwardPass(args.kind, Cat(_X, _references), target), FALSE)
                   ELSE cache
    /\ exc' = "ForwardError"
    /\ pc' = "finally"
    /\ UNCHANGED <<args, i, Xi, rj, attr_, attributions, z, references_, _X,
                   _references, multipliers, hooks, handles, nextId, y,
                   gradients, warnings_, genCalls, entropy, hyp, mp>>

\* whether the activation carries this engine's backward hook
Hooked ==
    /\ ActIndex(args.kind) # 0
    /\ EngineHooks(ActIndex(args.kind), "backward")
           \cap hooks[ActIndex(args.kind)].backward # {}

\* the activation as its backward hook sees it
ActModule ==
    [kind |-> args.kind,
     input |-> cache[ActIndex(args.kind)].input,
     output |-> cache[ActIndex(args.kind)].output]

\* the result of line 225 in the current state
Backprop ==
    BackwardPass(args.kind, Ops, Hooked,
                 ForwardPass(args.kind, Cat(_X, _references), target),
                 IF Hooked THEN ActModule ELSE [kind |-> args.kind],
                 Len(_X), TLen(_X[1]), target)

\* line 225: the gradients, or the exception a backward hook raised
Backward ==
    /\ pc = "backward"
    /\ IF Backprop.error # "none"
       THEN /\ exc' = Backprop.error
            /\ pc' = "finally"
            /\ UNCHANGED gradients
       ELSE /\ gradients' = Backprop.value
            /\ pc' = "check"
            /\ UNCHANGED exc
    /\ UNCHANGED <<args, i, Xi, rj, attr_, attributions, z, references_, _X,
                   _references, multipliers, hooks, cache, handles, nextId, y,
                   warnings_, genCalls, entropy, hyp, mp>>

\* a mutant: only the first pair of the batch is tested
TooHigh_first(deltas, threshold) == RLess(threshold, deltas[1])

\* torch.any(convergence_deltas > self.warning_threshold)
TooHigh(deltas, threshold) ==
    \E j \in 1..Len(deltas) : RLess(threshold, deltas[j])

\* lines 229-238: the convergence check and its warning
CheckConvergence ==
    /\ pc = "check"
    /\ warnings_' =
          IF TooHigh(ConvergenceDeltas(_X, _references, y, gradients),
                     args.warning_threshold)
          THEN Append(warnings_, i) ELSE warnings_
    /\ pc' = "finally"
    /\ UNCHANGED <<args, i, Xi, rj, attr_, attributions, z, references_, _X,
                   _references, multipliers, hooks, cache, handles, nextId, y,
                   gradients, exc, genCalls, entropy, hyp, mp>>

\* a mutant: only the backward hooks are removed
RemoveHandles_backwardonly(hs, held) ==
    [m \in DOMAIN hs |->
        [hs[m] EXCEPT !.backward =
            @ \ {held[h].id : h \in {g \in 1..Len(held) : held[g].module = m}}]]

\* handle.remove() for every handle of the engine object
RemoveHandles(hs, held) ==
    [m \in DOMAIN hs |->
        LET ids == {held[h].id : h \in {g \in 1..Len(held) : held[g].module = m}}
        IN  [forward |-> hs[m].forward \ ids,
             forward_pre |-> hs[m].forward_pre \ ids,
             backward |-> hs[m].backward \ ids]]

\* lines 240-244: the finally block, then the return of the gradients or
\* the exception carried on
RemoveHooks ==
    /\ pc = "finally"
    /\ hooks' = RemoveHandles(hooks, handles)
    /\ IF exc = "none"
       THEN multipliers' = gradients /\ pc' = "project"
       ELSE pc' = "raised" /\ UNCHANGED multipliers
    /\ UNCHANGED <<args, i, Xi, rj, attr_, attributions, z, references_, _X,
                   _references, cache, handles, nextId, y, gradients, exc,
                   warnings_, genCalls, entropy, hyp, mp>>

\* ------------------------------------------------------------------------
\* deep_lift_shap: the projection and the pending queue
\* ------------------------------------------------------------------------

\* lines 539-541: the projection, unless the raw multipliers are wanted
Project ==
    /\ pc = "project"
    /\ IF args.raw_outputs
       THEN /\ pc' = "extend"
            /\ UNCHANGED <<multipliers, exc>>
       ELSE LET res == hypothetical_attributions(multipliers, _X, _references)
            IN  IF res.error # "none"
                THEN /\ exc' = res.error
                     /\ pc' = "raised"
                     /\ UNCHANGED multipliers
                ELSE /\ multipliers' = res.value
                     /\ pc' = "extend"
                     /\ UNCHANGED exc
    /\ UNCHANGED <<args, i, Xi, rj, attr_, attributions, z, references_, _X,
                   _references, hooks, cache, handles, nextId, y, gradients,
                   warnings_, genCalls, entropy, hyp, mp>>

\* line 546: the results of the batch join the pending queue, in order
Extend ==
    /\ pc = "extend"
    /\ attr_' = attr_ \o [j \in 1..Len(multipliers) |->
                            [value |-> multipliers[j], pair |-> BatchPairs[j]]]
    /\ pc' = "drain"
    /\ UNCHANGED <<args, i, Xi, rj, attributions, z, references_, _X, _references,
                   multipliers, hooks, cache, handles, nextId, y, gradients, exc,
                   warnings_, genCalls, entropy, hyp, mp>>

RECURSIVE TensorSum(_, _)
TensorSum(ts, k) == IF k = 1 THEN ts[1] ELSE TAdd(ts[k], TensorSum(ts, k - 1))

\* attr_chunk.mean(dim=0)
Mean(ts) == TScale(TensorSum(ts, Len(ts)), Norm(1, Len(ts)))

\* a mutant: the chunk is taken from the newest entries of the queue
Chunk_newest(queue, R) == SubSeq(queue, Len(queue) - R + 1, Len(queue))

\* attr_[:n_shuffles]
Chunk(queue, R) == SubSeq(queue, 1, R)

\* a mutant: the mask is never applied
Masked_never(t, x, hypothetical) == t

\* attr_chunk *= X[z] unless hypothetical
Masked(t, x, hypothetical) == IF hypothetical THEN t ELSE TMul(t, x)

\* lines 553-558: the entry finalized from a chunk for example zz
Finalized(chunk, zz) ==
    LET stack == [k \in 1..Len(chunk) |-> chunk[k].value]
    IN  [value |-> IF args.raw_outputs THEN stack
                   ELSE Masked(Mean(stack), args.X[zz + 1], args.hypothetical),
         pairs |-> [k \in 1..Len(chunk) |-> chunk[k].pair],
         z |-> zz]

\* a mutant: z is not advanced
NextExample_stuck(zz) == zz

\* line 562: z += 1
NextExample(zz) == zz + 1

\* lines 552-562: one pass of the while loop
Drain ==
    /\ pc = "drain"
    /\ Len(attr_) >= n_shuffles
    /\ attributions' = Append(attributions, Finalized(Chunk(attr_, n_shuffles), z))
    /\ attr_' = SubSeq(attr_, n_shuffles + 1, Len(attr_))
    /\ z' = NextExample(z)
    /\ UNCHANGED <<args, pc, i, Xi, rj, references_, _X, _references, multipliers,
                   hooks, cache, handles, nextId, y, gradients, exc, warnings_,
                   genCalls, entropy, hyp, mp>>

\* lines 552, 564-567 and 505: the while loop ends, the references are
\* collected, the batch is emptied and the for loop goes on or ends
EndBatch ==
    /\ pc = "drain"
    /\ Len(attr_) < n_shuffles
    /\ references_' = IF args.return_references THEN references_ \o _references
                      ELSE references_
    /\ Xi' = <<>>
    /\ rj' = <<>>
    /\ i' = i + 1
    /\ pc' = IF i + 1 < n THEN "loop" ELSE "stack"
    /\ UNCHANGED <<args, attr_, attributions, z, _X, _references, multipliers, hooks,
                   cache, handles, nextId, y, gradients, exc, warnings_, genCalls,
                   entropy, hyp, mp>>

\* lines 569-576: the output is stacked and returned
Finish ==
    /\ pc = "stack"
    /\ pc' = "done"
    /\ UNCHANGED <<args, i, Xi, rj, attr_, attributions, z, references_, _X,
                   _references, multipliers, hooks, cache, handles, nextId, y,
                   gradients, exc, warnings_, genCalls, entropy, hyp, mp>>

Next ==
    \/ Collect
    \/ ResolveReferences
    \/ RegisterHooks
    \/ RegisterHooksRaises
    \/ Forward
    \/ ForwardRaises
    \/ Backward
    \/ CheckConvergence
    \/ RemoveHooks
    \/ Project
    \/ Extend
    \/ Drain
    \/ EndBatch
    \/ Finish

Spec == Init /\ [][Next]_vars

\* ------------------------------------------------------------------------
\* deep_lift_shap as a function of its arguments, for a tensor of references
\* or a seeded reference function: what lines 495-576 return when the
\* pairs are packed bs to a batch and hypothetical is hypo
\* ------------------------------------------------------------------------

\* lines 517-525: the reference of pair (e, r)
FixedReference(e, r) ==
    IF args.is_tensor THEN args.references[e + 1][r + 1]
    ELSE ReferenceFn(<<args.X[e + 1]>>, 1, SeedFor(args.random_state, r))[1][1]

\* the hooks on the model before the call
UserHooks ==
    [m \in 1..Len(Modules(args.kind)) |->
        IF args.userHook /\ m = ActIndex(args.kind)
        THEN [NoHooks EXCEPT !.backward = {0}]
        ELSE NoHooks]

\* attribute on a batch, on a model that carries the user's hooks alone
AttributeOn(Xb, refsb) ==
    LET st == ApplyRegister([hooks |-> UserHooks, handles |-> <<>>, nextId |-> 1],
                            Modules(args.kind), DOMAIN Ops, 1, Len(Modules(args.kind)))
        hooked == \E h \in 1..Len(st.handles) :
                      /\ st.handles[h].module = ActIndex(args.kind)
                      /\ st.handles[h].dict = "backward"
        fw == Eager(ForwardPass(args.kind, Cat(Xb, refsb), target))
    IN  BackwardPass(args.kind, Ops, hooked, fw,
                     [kind |-> args.kind, input |-> fw.input, output |-> fw.output],
                     Len(Xb), TLen(Xb[1]), target)

\* the pairs (0-based) of batch b (1-based) when bs pairs make a batch
PairsOfBatch(bs, b) ==
    [j \in 1..(IF b * bs <= n THEN bs ELSE n - ((b - 1) * bs)) |-> ((b - 1) * bs) + j - 1]

\* what the batch b contributes to the pending queue
BatchResults(bs, b) ==
    LET qs == PairsOfBatch(bs, b)
        Xb == Eager([j \in 1..Len(qs) |-> args.X[(qs[j] \div n_shuffles) + 1]])
        refsb == Eager([j \in 1..Len(qs) |->
                     FixedReference(qs[j] \div n_shuffles, qs[j] % n_shuffles)])
        m == Eager(AttributeOn(Xb, refsb).value)
    IN  IF args.raw_outputs THEN m
        ELSE hypothetical_attributions(m, Xb, refsb).value

\* the output, one entry per example
BatchedOutput(bs, hypo) ==
    LET results == Eager([b \in 1..(((n - 1) \div bs) + 1) |-> BatchResults(bs, b)])
    IN  [e \in 1..Len(args.X) |->
            LET stack == [r \in 1..n_shuffles |->
                             LET q == ((e - 1) * n_shuffles) + r - 1
                             IN  results[(q \div bs) + 1][(q % bs) + 1]]
            IN  IF args.raw_outputs THEN stack
                ELSE Masked(Mean(stack), args.X[e], hypo)]

\* the output of the call in the current state
Output == [k \in 1..Len(attributions) |-> attributions[k].value]

FixedReferences == args.is_tensor \/ ~args.random_state_is_none

\* ------------------------------------------------------------------------
\* Claims about deep_lift_shap
\* ------------------------------------------------------------------------

\* C1: with a tensor of references or a seeded reference function, the
\* attributions returned are those of the same call with batch_size 1,
\* with batch_size n_shuffles and with all the pairs in one batch.
C1_BatchInvariance ==
    (pc = "done" /\ FixedReferences) =>
        /\ Output = BatchedOutput(1, args.hypothetical)
        /\ Output = BatchedOutput(n_shuffles, args.hypothetical)
        /\ Output = BatchedOutput(n, args.hypothetical)

\* the call returned what deep_lift_shap, as a function, gives for its
\* batch_size
OutputIsBatched ==
    (pc = "done" /\ FixedReferences) =>
        Output = BatchedOutput(args.batch_size, args.hypothetical)

\* C2: an example is finalized only when the queue holds the results of
\* all its pairs: whenever z advances, the n_shuffles oldest entries of the
\* queue are the results of pairs (z, 0) .. (z, n_shuffles - 1), and the
\* entry appended to the output is made of exactly these.
C2_DrainExact ==
    [][ (z' # z) =>
          /\ Len(attr_) >= n_shuffles
          /\ \A r \in 1..n_shuffles : attr_[r].pair = <<z, r - 1>>
          /\ Len(attributions') = Len(attributions) + 1
          /\ attributions'[Len(attributions')].pairs =
                 [r \in 1..n_shuffles |-> <<z, r - 1>>]
          /\ attributions'[Len(attributions')].value =
                 (LET stack == [r \in 1..n_shuffles |-> attr_[r].value]
                  IN  IF args.raw_outputs THEN stack
                      ELSE IF args.hypothetical THEN Mean(stack)
                      ELSE TMul(Mean(stack), args.X[z + 1]))
          /\ attr_' = SubSeq(attr_, n_shuffles + 1, Len(attr_))
      ]_vars

\* an example whose references span two batches was finalized from a
\* batch that spans two examples
C2_Witness ==
    /\ Len(attributions) = 2
    /\ args.batch_size = 3
    /\ n_shuffles = 2

\* t is zero wherever x is zero
IsMasked(t, x) ==
    \A a \in Alphabet : \A p \in 1..TLen(x) : x[a][p] = Zero => t[a][p] = Zero

\* the k-th entry of the output belongs to example k, the output holds one
\* entry per example when the call returns and the queue is then empty
InputOrder ==
    /\ \A k \in 1..Len(attributions) :
          /\ attributions[k].z = k - 1
          /\ \A r \in 1..Len(attributions[k].pairs) : attributions[k].pairs[r][1] = k - 1
    /\ pc = "done" => (Len(attributions) = Len(args.X) /\ attr_ = <<>>)

\* C3 as stated: examples are finalized in input order, every entry is
\* masked with its example when hypothetical is False, and the call
\* returns one entry per example with the queue empty.
C3_Original ==
    /\ InputOrder
    /\ \A k \in 1..Len(attributions) :
          ~args.hypothetical =>
              IF args.raw_outputs
              THEN \A r \in 1..Len(attributions[k].value) :
                       IsMasked(attributions[k].value[r], args.X[k])
              ELSE IsMasked(attributions[k].value, args.X[k])

\* C3, amended: the mask is applied when hypothetical is False and
\* raw_outputs is False; the raw multipliers are returned unmasked.
C3_InputOrder ==
    /\ InputOrder
    /\ \A k \in 1..Len(attributions) :
          (~args.hypothetical /\ ~args.raw_outputs) =>
              IsMasked(attributions[k].value, args.X[k])

C3_Witness ==
    /\ pc = "done"
    /\ Len(attributions) = 2
    /\ args.batch_size = 3
    /\ n_shuffles = 2
    /\ ~args.hypothetical
    /\ ~args.raw_outputs
    /\ \E a \in Alphabet : attributions[2].value[a][1] # Zero

\* C4: outside a call of attribute the model carries the hooks it had
\* before the first call and no other: every hook a call installs is
\* removed when the call exits, by return or by exception.
C4_HooksRemoved ==
    pc \notin {"forward", "backward", "check", "finally"} => hooks = UserHooks

\* a call that had installed its hooks left with the KeyError of a
\* backward hook
C4_Witness ==
    /\ pc = "raised"
    /\ exc = "KeyError"
    /\ handles # <<>>

\* C5: a warning is issued for a batch exactly when the convergence delta
\* of one of its pairs exceeds warning_threshold, and with or without a
\* warning attribute returns the gradients.
C5_WarningIssued ==
    (pc \in {"finally", "project"} /\ exc = "none") =>
        /\ (\E w \in 1..Len(warnings_) : warnings_[w] = i)
              <=> (\E j \in 1..Len(_X) :
                      RLess(args.warning_threshold,
                            ConvergenceDeltas(_X, _references, y, gradients)[j]))
        /\ pc = "project" => multipliers = gradients

\* a call that warned on a batch that was not its last, and returned
C5_Witness ==
    /\ pc = "done"
    /\ Len(warnings_) >= 1
    /\ warnings_[1] < n - 1
    /\ Len(attributions) = Len(args.X)

\* the q-th pair (1-based) of the row-major order
PairAt(q) == <<(q - 1) \div n_shuffles, (q - 1) % n_shuffles>>

\* C6: with a reference function and a random_state, the function is
\* called once per pair, on one sequence, with the seed random_state + r
\* for pair (e, r), and the reference of pair (e, r) is what the function
\* gives for X[e] under that seed.
C6_SeedPerPair ==
    (~args.is_tensor /\ ~args.random_state_is_none) =>
        /\ \A c \in 1..Len(genCalls) :
              /\ genCalls[c].n_seqs = 1
              /\ genCalls[c].n = 1
              /\ genCalls[c].pairs = <<PairAt(c)>>
              /\ genCalls[c].seed = args.random_state + PairAt(c)[2]
        /\ \A q \in 1..Len(references_) :
              references_[q] =
                  ReferenceFn(<<args.X[PairAt(q)[1] + 1]>>, 1,
                              args.random_state + PairAt(q)[2])[1][1]
        /\ pc = "done" => (Len(genCalls) = n /\ Len(references_) = n)

C6_Witness ==
    /\ pc = "done"
    /\ ~args.is_tensor
    /\ ~args.random_state_is_none
    /\ args.random_state = 1
    /\ args.batch_size = 3
    /\ n_shuffles = 2
    /\ Len(args.X) = 2

\* C7: with raw_outputs False, the output for hypothetical False is the
\* output of the same call for hypothetical True multiplied by X: equal
\* at the observed symbol, zero at the others.
C7_ObservedIsMaskedHypothetical ==
    (pc = "done" /\ FixedReferences /\ ~args.raw_outputs /\ ~args.hypothetical) =>
        LET H == BatchedOutput(args.batch_size, TRUE)
        IN  \A k \in 1..Len(args.X) :
                /\ Output[k] = TMul(H[k], args.X[k])
                /\ \A a \in Alphabet : \A p \in 1..TLen(args.X[k]) :
                      Output[k][a][p] = IF args.X[k][a][p] = One THEN H[k][a][p] ELSE Zero

C7_Witness ==
    /\ pc = "done"
    /\ FixedReferences
    /\ ~args.raw_outputs
    /\ ~args.hypothetical
    /\ Len(args.X) = 2
    /\ \E a \in Alphabet :
          /\ args.X[2][a][1] = Zero
          /\ BatchedOutput(args.batch_size, TRUE)[2][a][1] # Zero

\* ------------------------------------------------------------------------
\* hypothetical_attributions called on its own
\* ------------------------------------------------------------------------

\* the driver and the engine at rest
DriverIdle ==
    /\ args = [kind |-> "none"]
    /\ pc = "idle"
    /\ i = 0
    /\ Xi = <<>>
    /\ rj = <<>>
    /\ attr_ = <<>>
    /\ attributions = <<>>
    /\ z = 0
    /\ references_ = <<>>
    /\ _X = <<>>
    /\ _references = <<>>
    /\ multipliers = <<>>
    /\ hooks = <<>>
    /\ cache = <<>>
    /\ handles = <<>>
    /\ nextId = 1
    /\ y = <<>>
    /\ gradients = <<>>
    /\ exc = "none"
    /\ warnings_ = <<>>
    /\ genCalls = <<>>
    /\ entropy = 0

\* the most cells of a multiplier tensor that are not zero
MaxNonZero == 2

\* the values of the cells of a multiplier tensor that are not zero
MultiplierValues == {-1, 1, 2}

\* the lengths of the sequences the projector is called on
ProjLens == {1, 3}

Cells(len) == Alphabet \X (1..len)

\* the multiplier tensors of shape (alphabet, len)
MultiplierTensors(len) ==
    UNION { { [a \in Alphabet |->
                 [p \in 1..len |-> IF <<a, p>> \in S THEN Q(f[<<a, p>>]) ELSE Zero]] :
              f \in [S -> MultiplierValues] } :
            S \in { T \in SUBSET Cells(len) : Cardinality(T) <= MaxNonZero } }

\* the sequences explained: every symbol at length 1, three sequences else
ProjSeqs(len) ==
    IF len = 1 THEN { <<a>> : a \in Alphabet }
    ELSE { [p \in 1..len |-> (p + k) % 4] : k \in 0..2 }

\* the references: all zeros, a one-hot sequence, or one of another length
ProjReferences(len, seq) ==
    {Full(len, Zero), Full(len + 1, Zero), OneHot([p \in 1..len |-> (seq[p] + 1) % 4])}
        \cup (IF len = 1 THEN { OneHot(<<a>>) : a \in Alphabet } ELSE {})

\* the forms of the arguments: one argument at most is no tuple of one
\* tensor, and that only beside the multipliers that are all zero
ProjForms(m) ==
    {TupleForms} \cup
    (IF \A a \in Alphabet : \A p \in 1..TLen(m) : m[a][p] = Zero
     THEN {[TupleForms EXCEPT ![v] = f] :
              v \in DOMAIN TupleForms, f \in ArgForms \ {"tuple"}}
     ELSE {})

InitProj ==
    /\ DriverIdle
    /\ mp = PoolIdle
    /\ \E len \in ProjLens :
          \E m \in MultiplierTensors(len), seq \in ProjSeqs(len) :
              \E r \in ProjReferences(len, seq), forms \in ProjForms(m) :
                  hyp = [forms |-> forms, multipliers |-> <<m>>,
                         X |-> <<OneHot(seq)>>, references |-> <<r>>,
                         out |-> Raise("none"), called |-> FALSE]

\* lines 67-79: the call returns the projection
ProjectorReturns ==
    /\ ~hyp.called
    /\ hypothetical_attributions_call(hyp.forms, hyp.multipliers, hyp.X,
                                      hyp.references).error = "none"
    /\ hyp' = [hyp EXCEPT !.called = TRUE,
                          !.out = hypothetical_attributions_call(
                                      hyp.forms, hyp.multipliers, hyp.X, hyp.references)]
    /\ UNCHANGED <<driverVars, mp>>

\* lines 55-64: the call raises on tensors of different shapes
ProjectorRaises ==
    /\ ~hyp.called
    /\ hypothetical_attributions_call(hyp.forms, hyp.multipliers, hyp.X,
                                      hyp.references).error # "none"
    /\ hyp' = [hyp EXCEPT !.called = TRUE,
                          !.out = hypothetical_attributions_call(
                                      hyp.forms, hyp.multipliers, hyp.X, hyp.references)]
    /\ UNCHANGED <<driverVars, mp>>

NextProj ==
    \/ ProjectorReturns
    \/ ProjectorRaises

SpecProj == InitProj /\ [][NextProj]_vars

\* the tensor of length 1 with the given value at each symbol
Column(v) == [a \in Alphabet |-> <<Q(v[a + 1])>>]

\* the call of the scenario: the multiplier w = [1, -1, 0, 0], X the one-hot
\* of "A" and the reference the one-hot of "C", at one position
EndToEndCall ==
    /\ hyp.called
    /\ hyp.forms = TupleForms
    /\ hyp.multipliers = <<Column(<<1, -1, 0, 0>>)>>
    /\ hyp.X = <<OneHot(<<0>>)>>
    /\ hyp.references = <<OneHot(<<1>>)>>

\* C8 as stated: in the scenario the projector's value at the "A" slot
\* is 1.
C8_Original ==
    EndToEndCall => (hyp.out.error = "none" /\ hyp.out.value[1][0][1] = Q(1))

\* C8, amended: in the scenario the projector's value at the "A" slot is
\* 2: the difference 1 - 0 at "A" times the weight 1, plus the difference
\* 0 - 1 at "C" times the weight -1; the projection is [2, 0, 1, 1].
C8_EndToEnd ==
    EndToEndCall =>
        /\ hyp.out.error = "none"
        /\ hyp.out.value[1][0][1] = Q(2)
        /\ hyp.out.value = <<Column(<<2, 0, 1, 1>>)>>

C8_Witness == EndToEndCall /\ hyp.out.error = "none"

\* C9: with a reference of all zeros, the contribution term of each
\* hypothetical symbol s is the multiplier at slot s and zero at the other
\* slots, and the projector returns the multiplier tensor.
C9_ZeroReference ==
    (hyp.called /\ hyp.forms = TupleForms
        /\ hyp.references = <<Full(TLen(hyp.X[1]), Zero)>>) =>
        /\ hyp.out = Return(hyp.multipliers)
        /\ \A s \in Alphabet : \A a \in Alphabet : \A p \in 1..TLen(hyp.X[1]) :
              hypothetical_contribs(s, hyp.multipliers, hyp.X, hyp.references)[1][a][p]
                  = IF a = s THEN hyp.multipliers[1][a][p] ELSE Zero

\* a 1x4x3 multiplier tensor with two cells that are not zero, one of them
\* at a symbol that is not observed, projected on a reference of zeros
C9_Witness ==
    /\ hyp.called
    /\ TLen(hyp.X[1]) = 3
    /\ hyp.references = <<Full(3, Zero)>>
    /\ hyp.out.error = "none"
    /\ \E a \in Alphabet :
          /\ hyp.X[1][a][1] = Zero
          /\ hyp.multipliers[1][a][1] = Q(2)
    /\ \E a \in Alphabet : hyp.multipliers[1][a][3] = Q(-1)

\* ------------------------------------------------------------------------
\* A max-pooling layer under the _maxpool rule
\* ------------------------------------------------------------------------

\* the row of rationals of a row of integers
QRow(row) == [p \in DOMAIN row |-> Q(row[p])]

\* the inputs of the example and the values of the inputs of its reference
PoolExamples == { <<1, 5, 2, 8>>, <<5, 1, 8, 2>> }

PoolReferenceValues == {0, 5, 9}

\* the values of the upstream gradient
PoolGradValues == {-1, 0, 1}

InitPool ==
    /\ DriverIdle
    /\ hyp = ProjIdle
    /\ \E ex \in PoolExamples, ref \in [1..4 -> PoolReferenceValues],
          g \in [1..2 -> [1..2 -> PoolGradValues]] :
          mp = [module |-> [kind |-> "MaxPool1d", kernel_size |-> 2, stride |-> 2,
                            input |-> <<QRow(ex), QRow(ref)>>, output |-> <<>>],
                grad_input |-> <<>>,
                grad_output |-> <<QRow(g[1]), QRow(g[2])>>,
                new_grad_inp |-> Raise("none"),
                stage |-> "idle"]

\* the forward pass over the example and its reference: _f_hook caches
\* the layer's output
PoolForward ==
    /\ mp.stage = "idle"
    /\ mp' = [mp EXCEPT !.stage = "forward",
                        !.module.output = pool_func(mp.module.input,
                                                    mp.module.kernel_size,
                                                    mp.module.stride)]
    /\ UNCHANGED <<driverVars, hyp>>

\* the backward pass: _b_hook replaces the layer's gradient by the rule's
PoolBackward ==
    /\ mp.stage = "forward"
    /\ LET grad_input == maxpool_backward(mp.module, mp.grad_output)
       IN  mp' = [mp EXCEPT !.stage = "done",
                            !.grad_input = grad_input,
                            !.new_grad_inp = _maxpool(mp.module, grad_input,
                                                      mp.grad_output)]
    /\ UNCHANGED <<driverVars, hyp>>

NextPool ==
    \/ PoolForward
    \/ PoolBackward

SpecPool == InitPool /\ [][NextPool]_vars

\* the rule has run on the example [1, 5, 2, 8]
PoolRuleRan ==
    /\ mp.stage = "done"
    /\ mp.module.input[1] = QRow(<<1, 5, 2, 8>>)
    /\ mp.new_grad_inp.error = "none"

\* C10 as stated: the gradient the rule gives the example [1, 5, 2, 8] is
\* nonzero only at indices 1 and 3, whatever the reference and the
\* upstream gradient.
C10_Original ==
    PoolRuleRan =>
        \A p \in 1..4 : mp.new_grad_inp.value[1][p] # Zero => (p - 1) \in {1, 3}

\* position p holds the maximum of its window in the reference, and that
\* maximum exceeds the example's
ReferenceWins(p) ==
    LET w == ((p - 1) \div 2) + 1
        ex == mp.module.input[1]
        ref == mp.module.input[2]
    IN  /\ \A q \in Window(w, 2, 2) : ~RLess(ref[p], ref[q])
        /\ \A q \in Window(w, 2, 2) : RLess(ex[q], ref[p])

\* C10, amended: the gradient the rule gives the example [1, 5, 2, 8] is
\* nonzero only at indices 1 and 3 and at the indices where the reference
\* has the maximum of a window and that maximum exceeds the example's;
\* with a reference that nowhere exceeds the example's maxima it is
\* nonzero only at indices 1 and 3.
C10_MaxPoolRouting ==
    PoolRuleRan =>
        \A p \in 1..4 :
            mp.new_grad_inp.value[1][p] # Zero => ((p - 1) \in {1, 3} \/ ReferenceWins(p))

\* the example's gradient is nonzero at index 0, where the reference has
\* the larger maximum of the first window
C10_Witness ==
    /\ PoolRuleRan
    /\ mp.new_grad_inp.value[1][1] # Zero
    /\ mp.new_grad_inp.value[1][2] # Zero

\* ------------------------------------------------------------------------
\* The engine on the models explained
\* ------------------------------------------------------------------------

\* attribute has its gradients and no exception is in flight
HasGradients == pc \in {"check", "finally", "project"} /\ exc = "none"

\* C11: on the model that is the Linear layer alone, with the weights
\* w = [1, -1, 0, 0] at every position, attribute returns w as the
\* multiplier of every pair, the sum of (X - reference) * multiplier is
\* f(X) - f(reference), the convergence delta is 0 and no warning is
\* issued.
C11_LinearConvergence ==
    (args.kind = "Linear" /\ HasGradients) =>
        /\ \A j \in 1..Len(_X) : \A a \in Alphabet : \A p \in 1..TLen(_X[j]) :
              gradients[j][a][p] = Q(<<1, -1, 0, 0>>[a + 1])
        /\ \A j \in 1..Len(_X) :
              /\ TSum(TMul(TSub(_X[j], _references[j]), gradients[j]))
                    = RSub(y[j], y[j + Len(_X)])
              /\ ConvergenceDeltas(_X, _references, y, gradients)[j] = Zero
        /\ pc \in {"finally", "project"} => warnings_ = <<>>
        /\ pc = "project" => multipliers = gradients

\* a batch of the linear model that pairs "A" with the reference "C" at
\* its first position went through attribute
C11_Witness ==
    /\ args.kind = "Linear"
    /\ pc = "project"
    /\ exc = "none"
    /\ _X[1][0][1] = One
    /\ _references[1][1][1] = One
    /\ y[1] # y[1 + Len(_X)]

\* ------------------------------------------------------------------------
\* The calls that may fail on their arguments: deep_lift_shap, and
\* hypothetical_attributions called on its own
\* ------------------------------------------------------------------------

InitCalls == Init \/ InitProj

\* the projector called on its own, the driver at rest
ProjectorAlone == pc = "idle" /\ NextProj

NextCalls ==
    \/ Next
    \/ ProjectorAlone

SpecCalls == InitCalls /\ [][NextCalls]_vars

\* attribute was entered with X and references of different shapes
ShapesDiffer ==
    /\ pc \notin {"idle", "loop", "references", "attribute"}
    /\ Shape(_X) # Shape(_references)

\* an argument of the projector is no one-element tuple of a tensor, or
\* holds a tensor that has not the shape of the multipliers
ArgumentsDiffer ==
    \/ \E v \in DOMAIN hyp.forms : hyp.forms[v] # "tuple"
    \/ Shape(hyp.X) # Shape(hyp.multipliers)
    \/ Shape(hyp.references) # Shape(hyp.multipliers)

\* C12: attribute entered with X.shape # references.shape raises at
\* once: no hook was installed, the model was not run and carries what it
\* carried before; hypothetical_attributions raises ValueError and returns
\* nothing when an argument is no one-element tuple, holds no tensor or
\* holds a tensor of another shape than the multipliers', and only then.
C12_MismatchIsFatal ==
    /\ ShapesDiffer =>
          /\ pc = "raised"
          /\ exc = "AssertionError"
          /\ hooks = UserHooks
          /\ handles = <<>>
          /\ nextId = 1
          /\ cache = [m \in 1..Len(Modules(args.kind)) |-> NoCache]
          /\ y = <<>>
          /\ gradients = <<>>
          /\ attributions = <<>>
    /\ hyp.called =>
          IF ArgumentsDiffer THEN hyp.out = Raise("ValueError")
          ELSE hyp.out.error = "none"

\* a call of deep_lift_shap on a model with a rule-carrying layer ended
\* with the assertion of attribute
C12_Witness ==
    /\ pc = "raised"
    /\ exc = "AssertionError"
    /\ args.kind = "ReLU"
    /\ Shape(_X) # Shape(_references)

\* the hooks of the engine object that module m carries in a hook dict
Installed(m, dict) == EngineHooks(m, dict) \cap hooks[m][dict]

\* C13: while the forward and backward passes run, every layer that is an
\* instance of a kind with a rule carries the engine's forward-pre,
\* forward and backward hook, each exactly once.
C13_InstalledOnce ==
    pc \in {"forward", "backward"} =>
        \A m \in 1..Len(Modules(args.kind)) :
            IsInstance(Modules(args.kind)[m], DOMAIN Ops) =>
                \A dict \in {"forward_pre", "forward", "backward"} :
                    Cardinality(Installed(m, dict)) = 1

\* C14: outside a call of attribute no layer of the model holds a
\* cached input or output: what the forward hooks stored is gone when the
\* call has exited, by return or by exception.
C14_CacheDiscarded ==
    pc \notin {"forward", "backward", "check", "finally"} =>
        \A m \in 1..Len(Modules(args.kind)) : cache[m] = NoCache

\* C15: the layers _register_hooks selects are the layers whose own kind
\* is a key of the rule table, so that the lookup of the backward hook
\* succeeds on every layer that carries it and no KeyError is raised; a
\* layer that is not selected carries no hook of the engine.
C15_DispatchNeverFails ==
    /\ exc # "KeyError"
    /\ \A m \in 1..Len(Modules(args.kind)) :
          /\ Installed(m, "backward") # {} =>
                /\ IsInstance(Modules(args.kind)[m], DOMAIN Ops)
                /\ Modules(args.kind)[m] \in DOMAIN Ops
          /\ ~IsInstance(Modules(args.kind)[m], DOMAIN Ops) =>
                \A dict \in {"forward_pre", "forward", "backward"} :
                    Installed(m, dict) = {}

====
